---- MODULE Spec2Model ----
(***************************************************************************)
(* Model of gpxfixer.py: main() loads an original GPX track and a          *)
(* replacement GPX track, synthesises the original's sensor channels onto  *)
(* the replacement's points, re-times the replacement's points and prints  *)
(* the original document with the replacement's track segment.             *)
(*                                                                         *)
(* Representation of the numeric domain:                                   *)
(*  - instants and durations are integers in microseconds, the resolution  *)
(*    of datetime/timedelta; input timestamps are whole seconds;           *)
(*  - all points lie on one meridian (equal lon), and a point's lat is its *)
(*    arc length from the equator in metres (lat in degrees is             *)
(*    lat / 6371000 * 180 / pi), so that the haversine distance of         *)
(*    adjust_distance is |lat - last.lat| metres;                          *)
(*  - the float quotients nelapsed and ndistance are exact fractions       *)
(*    [num, den] in lowest terms with den > 0; the float NaN produced by   *)
(*    numpy's 0.0 / 0.0 is the fraction 0/0;                               *)
(*  - np.polyfit / np.poly1d are kept symbolic: a fit is the sample arrays *)
(*    handed to polyfit and whether its coefficients are finite, a         *)
(*    synthesised value is the point at which the polynomial is evaluated  *)
(*    together with the rounding applied and whether it is finite.         *)
(***************************************************************************)
EXTENDS Integers, Sequences, FiniteSets, TLC

VARIABLES
    gpx,          \* content of the file named by --gpx (sequence of trkpt)
    replace,      \* content of the file named by --replace
    output,       \* TRUE iff --output was given
    original,     \* GpxFile built from gpx, or Unbuilt
    replacement,  \* GpxFile built from replace, or Unbuilt
    target,       \* the output target: "untouched", "truncated" or "written"
    printed,      \* the track segment written to the output target
    pc,           \* position of main
    err           \* the exception that ended main, "" if none

vars == <<gpx, replace, output, original, replacement, target, printed, pc, err>>

---------------------------------------------------------------------------
(* Bounds of the inputs *)

MaxPts == 3        \* points per track
MaxLat == 3        \* original: metres of arc from the first point's parallel
MaxTime == 2       \* original: seconds
MaxRefLat == 2     \* replacement: metres
MaxRefTime == 1    \* replacement: seconds

(* Program constants *)

MIN_RATE == [num |-> 3, den |-> 2]
US_PER_S == 1000000
US_PER_MS == 1000
POLY_DEG == 3

---------------------------------------------------------------------------
(* Arithmetic helpers *)

Abs(x) == IF x < 0 THEN -x ELSE x

RECURSIVE Gcd(_, _)
Gcd(a, b) == IF b = 0 THEN a ELSE Gcd(b, a % b)

\* a / b as a float: the exact quotient, NaN (0/0) when both are zero.
\* The divisor is never zero with a non-zero dividend where this is used.
Frac(a, b) ==
    IF b = 0 THEN [num |-> 0, den |-> 0]
    ELSE LET g == Gcd(Abs(a), Abs(b))
             s == IF b < 0 THEN -1 ELSE 1
         IN  [num |-> (s * a) \div g, den |-> (s * b) \div g]

Zero == [num |-> 0, den |-> 1]
One == [num |-> 1, den |-> 1]
IsNaN(f) == f.den = 0

\* a < b on floats: false when either side is NaN.
FracLt(a, b) == ~IsNaN(a) /\ ~IsNaN(b) /\ a.num * b.den < b.num * a.den

\* a <= b on floats: false when either side is NaN.
FracLe(a, b) == ~IsNaN(a) /\ ~IsNaN(b) /\ a.num * b.den <= b.num * a.den

\* round-half-even of n / d for d > 0: timedelta(seconds=...) rounds to the
\* nearest microsecond, ties to even.
RoundHalfEven(n, d) ==
    LET q == n \div d
        r == n % d
    IN  IF 2 * r < d THEN q
        ELSE IF 2 * r > d THEN q + 1
        ELSE IF q % 2 = 0 THEN q ELSE q + 1

RECURSIVE SumSeq(_)
SumSeq(s) == IF s = << >> THEN 0 ELSE Head(s) + SumSeq(Tail(s))

---------------------------------------------------------------------------
(* class TrackPoint *)

\* __init__: c is a trkpt element [lat, time (s), ext (child tags of the
\* TrackPointExtension)].  pt is the element itself, of which the model keeps
\* the time text (in milliseconds, the precision main writes) and the
\* extensions group.
TrackPoint(c) ==
    [ pt |-> [time |-> c.time * (US_PER_S \div US_PER_MS), extensions |-> c.ext],
      lat |-> c.lat,
      time |-> c.time * US_PER_S,
      elapsed |-> 0,
      nelapsed |-> Zero,
      distance |-> 0,
      accumulated_distance |-> 0,
      ndistance |-> Zero,
      since_last |-> 0,
      extensions |-> c.ext ]

\* adjust_time raises ZeroDivisionError when total_seconds is 0.0
adjust_time_raises(total_seconds) == total_seconds = 0

\* Variant: since_last measured from the origin instead of the previous point.
adjust_time_from_origin(self, origin, last, total_seconds) ==
    [self EXCEPT !.elapsed = self.time - origin.time,
                 !.nelapsed = Frac(self.time - origin.time, total_seconds),
                 !.since_last = self.time - origin.time]

adjust_time(self, origin, last, total_seconds) ==
    [self EXCEPT !.elapsed = self.time - origin.time,
                 !.nelapsed = Frac(self.time - origin.time, total_seconds),
                 !.since_last = self.time - last.time]

adjust_distance(self, last) ==
    [self EXCEPT !.distance = Abs(self.lat - last.lat)]

\* Variant: the fraction taken of the point's own distance, not the running sum.
set_ndistance_unaccumulated(self, last, total_distance) ==
    LET acc == self.distance + last.accumulated_distance
    IN  [self EXCEPT !.accumulated_distance = acc,
                     !.ndistance = Frac(self.distance, total_distance)]

set_ndistance(self, last, total_distance) ==
    LET acc == self.distance + last.accumulated_distance
    IN  [self EXCEPT !.accumulated_distance = acc,
                     !.ndistance = Frac(acc, total_distance)]

\* Variant: rate <= MIN_RATE counts as stationary.
calc_still_time_inclusive(self) ==
    LET rate == IF self.since_last > 0
                THEN Frac(self.distance * US_PER_S, self.since_last)
                ELSE Zero
    IN  IF FracLe(rate, MIN_RATE) THEN self.since_last ELSE 0

\* since_last is in microseconds, the rate in metres per second.
calc_still_time(self) ==
    LET rate == IF self.since_last > 0
                THEN Frac(self.distance * US_PER_S, self.since_last)
                ELSE Zero
    IN  IF FracLt(rate, MIN_RATE) THEN self.since_last ELSE 0

\* lines 71-72: the channel name gets the ns3: prefix unless it has it.
ns3(ext) ==
    CASE ext = "hr" -> "ns3:hr"
      [] ext = "atemp" -> "ns3:atemp"
      [] OTHER -> ext

\* poly(self.ndistance) is a finite number: the coefficients are finite and
\* the point of evaluation is not NaN.
poly_finite(poly, self) == poly.finite /\ ~IsNaN(self.ndistance)

\* add_extensions raises ValueError (int(round(nan))) when the value of a
\* channel that is not atemp is not finite.
add_extensions_raises(self, polyfit) ==
    \E k \in 1..Len(polyfit) :
       ns3(polyfit[k].name) # "ns3:atemp" /\ ~poly_finite(polyfit[k], self)

\* The new extensions group: per fitted channel the value poly(ndistance),
\* rounded to 1 digit for atemp and to an integer otherwise.
add_extensions(self, polyfit) ==
    LET new_extensions ==
          [k \in 1..Len(polyfit) |->
              [name |-> ns3(polyfit[k].name),
               poly |-> polyfit[k].name,
               at |-> self.ndistance,
               finite |-> poly_finite(polyfit[k], self),
               ndigits |-> IF ns3(polyfit[k].name) = "ns3:atemp" THEN 1 ELSE 0]]
    IN  [self EXCEPT !.pt.extensions = new_extensions]

RECURSIVE IndexOf(_, _, _)
IndexOf(values, name, k) ==
    IF k > Len(values) THEN 0
    ELSE IF values[k].name = name THEN k
    ELSE IndexOf(values, name, k + 1)

\* line 89: the abscissa of a sample is the point's time fraction.
fit_x(self) == self.nelapsed

\* values is the dict of append_fit_values, in insertion order.
RECURSIVE append_fit_values_from(_, _, _)
append_fit_values_from(self, values, e) ==
    IF e > Len(self.extensions) THEN values
    ELSE LET ext == self.extensions[e]
             v0 == IF IndexOf(values, ext.name, 1) = 0
                   THEN Append(values, [name |-> ext.name, x |-> << >>, y |-> << >>])
                   ELSE values
             k == IndexOf(v0, ext.name, 1)
             v1 == [v0 EXCEPT ![k].x = Append(@, fit_x(self)),
                              ![k].y = Append(@, ext.string)]
         IN  append_fit_values_from(self, v1, e + 1)

append_fit_values(self, values) == append_fit_values_from(self, values, 1)

\* fix_time raises ValueError (timedelta(seconds=nan)) on a NaN ndistance.
fix_time_raises(self) == IsNaN(self.ndistance)

\* total_seconds in microseconds; the time text keeps the first three digits
\* of the microsecond field.
fix_time(self, origin_time, total_seconds) ==
    LET nelapsed == RoundHalfEven(total_seconds * self.ndistance.num,
                                  self.ndistance.den)
        time == origin_time + nelapsed
    IN  [self EXCEPT !.time = time, !.pt.time = time \div US_PER_MS]

---------------------------------------------------------------------------
(* class GpxFile *)

Unbuilt ==
    [ built |-> FALSE, pts |-> << >>, trkseg |-> << >>, total_seconds |-> 0,
      total_distance |-> 0, values |-> << >>, polyfit |-> << >>,
      total_still_time |-> 0 ]

\* lines 118-120
Adjusted(pts, total_seconds) ==
    [i \in 1..Len(pts) |->
        IF i = 1 THEN pts[1]
        ELSE adjust_time(adjust_distance(pts[i], pts[i-1]),
                         pts[1], pts[i-1], total_seconds)]

\* lines 122-123
RECURSIVE Normalized(_, _, _)
Normalized(pts, i, total_distance) ==
    IF i > Len(pts) THEN pts
    ELSE Normalized([pts EXCEPT ![i] = set_ndistance(pts[i], pts[i-1], total_distance)],
                    i + 1, total_distance)

\* lines 125-127
RECURSIVE CollectValues(_, _, _)
CollectValues(pts, i, values) ==
    IF i > Len(pts) THEN values
    ELSE CollectValues(pts, i + 1, append_fit_values(pts[i], values))

\* np.polyfit divides each column x^POLY_DEG, ..., x^1, x^0 of the
\* Vandermonde matrix by its norm before lstsq: when every abscissa is 0.0
\* the columns of the positive powers have norm 0 and become 0/0 = NaN.
polyfit_singular(points) == \A j \in 1..Len(points.x) : points.x[j] = Zero

\* lines 129-132: on samples that do not determine the POLY_DEG + 1
\* coefficients np.polyfit only warns (RankWarning); on a singular sample
\* set the coefficients are not finite, unless lstsq raised (see GpxFile).
PolyFit(values) ==
    [k \in 1..Len(values) |->
        [name |-> values[k].name, x |-> values[k].x, y |-> values[k].y,
         deg |-> POLY_DEG, finite |-> ~polyfit_singular(values[k])]]

Trkseg(pts) == [i \in 1..Len(pts) |-> pts[i].pt]

\* __init__: [err, obj]; err is the exception raised, "" when obj is built.
\* lstsq_raises is the behaviour of the numpy build on a matrix with NaN:
\* lstsq raises LinAlgError (SVD did not converge), or it returns and the
\* coefficients are not finite.
GpxFile(file, lstsq_raises) ==
    IF Len(file) = 0 THEN [err |-> "IndexError", obj |-> Unbuilt]
    ELSE
      LET p0 == [i \in 1..Len(file) |-> TrackPoint(file[i])]
          total_seconds == p0[Len(p0)].time - p0[1].time
      IN
      IF Len(file) >= 2 /\ adjust_time_raises(total_seconds)
      THEN [err |-> "ZeroDivisionError", obj |-> Unbuilt]
      ELSE
        LET p1 == Adjusted(p0, total_seconds)
            total_distance == SumSeq([i \in 1..Len(p1) |-> p1[i].distance])
            p2 == Normalized(p1, 2, total_distance)
            values == CollectValues(p2, 1, << >>)
        IN
        IF lstsq_raises /\ \E k \in 1..Len(values) : polyfit_singular(values[k])
        THEN [err |-> "LinAlgError", obj |-> Unbuilt]
        ELSE
            [err |-> "",
             obj |-> [ built |-> TRUE,
                       pts |-> p2,
                       trkseg |-> Trkseg(p2),
                       total_seconds |-> total_seconds,
                       total_distance |-> total_distance,
                       values |-> values,
                       polyfit |-> PolyFit(values),
                       total_still_time |->
                          SumSeq([i \in 1..Len(p2) |-> calc_still_time(p2[i])]) ]]

start_time(self) == self.pts[1].time

\* Index of the first iteration of a loop that raises, 0 if none does.
FirstRaise(raises) ==
    IF \E i \in 1..Len(raises) : raises[i]
    THEN CHOOSE i \in 1..Len(raises) :
            raises[i] /\ \A j \in 1..(i - 1) : ~raises[j]
    ELSE 0

\* GpxFile.add_extensions: the points before the one that raises are changed.
GpxFile_add_extensions(self, orig) ==
    LET bad == FirstRaise([i \in 1..Len(self.pts) |->
                              add_extensions_raises(self.pts[i], orig.polyfit)])
        pts == [i \in 1..Len(self.pts) |->
                  IF bad = 0 \/ i < bad
                  THEN add_extensions(self.pts[i], orig.polyfit)
                  ELSE self.pts[i]]
    IN  [err |-> IF bad = 0 THEN "" ELSE "ValueError",
         obj |-> [self EXCEPT !.pts = pts, !.trkseg = Trkseg(pts)]]

\* GpxFile.fix_time
GpxFile_fix_time(self, orig) ==
    LET bad == FirstRaise([i \in 1..Len(self.pts) |-> fix_time_raises(self.pts[i])])
        pts == [i \in 1..Len(self.pts) |->
                  IF bad = 0 \/ i < bad
                  THEN fix_time(self.pts[i], start_time(orig),
                                orig.total_seconds - orig.total_still_time)
                  ELSE self.pts[i]]
    IN  [err |-> IF bad = 0 THEN "" ELSE "ValueError",
         obj |-> [self EXCEPT !.pts = pts, !.trkseg = Trkseg(pts)]]

\* replace_gps: the replacement's trkseg element is moved into the
\* original's document and so leaves the replacement's.
replace_gps(self, repl) == [self EXCEPT !.trkseg = repl.trkseg]

---------------------------------------------------------------------------
(* Input files *)

\* The extensions group of a trkpt of the original: none, or a
\* TrackPointExtension with a temperature and a heart-rate child.
RawExts ==
    { << >>,
      << [name |-> "ns3:atemp", string |-> 21], [name |-> "ns3:hr", string |-> 120] >> }

Trkpts(lats, times, exts) == [lat : lats, time : times, ext : exts]

\* The empty track and the tracks of at most MaxPts points that start at lat 0 (only differences of
\* lat enter the program).
Files(maxLat, maxTime, exts) ==
    { << >> } \cup
    UNION { { f \in [1..n -> Trkpts(0..maxLat, 0..maxTime, exts)] : f[1].lat = 0 }
            : n \in 1..MaxPts }

---------------------------------------------------------------------------
(* main *)

NoErr == [in |-> "", exc |-> ""]

Init ==
    /\ gpx \in Files(MaxLat, MaxTime, RawExts)
    /\ replace \in Files(MaxRefLat, MaxRefTime, {<< >>})
    /\ output \in BOOLEAN
    /\ original = Unbuilt
    /\ replacement = Unbuilt
    /\ target = "untouched"
    /\ printed = << >>
    /\ pc = "open_output"
    /\ err = NoErr

\* An uncaught exception ends main.
Fail(e) == pc' = "failed" /\ err' = [in |-> pc, exc |-> e]

\* lines 175-176: sys.stdout = open(parsed.output, "w")
OpenOutput ==
    /\ pc = "open_output"
    /\ target' = IF output THEN "truncated" ELSE target
    /\ pc' = "load_gpx"
    /\ UNCHANGED <<gpx, replace, output, original, replacement, printed, err>>

\* line 177
LoadOriginal ==
    /\ pc = "load_gpx"
    /\ \E lstsq_raises \in BOOLEAN :
          LET r == GpxFile(gpx, lstsq_raises)
          IN  /\ original' = r.obj
              /\ IF r.err = "" THEN pc' = "load_replace" /\ err' = err
                 ELSE Fail(r.err)
    /\ UNCHANGED <<gpx, replace, output, replacement, target, printed>>

\* line 178
LoadReplacement ==
    /\ pc = "load_replace"
    /\ \E lstsq_raises \in BOOLEAN :
          LET r == GpxFile(replace, lstsq_raises)
          IN  /\ replacement' = r.obj
              /\ IF r.err = "" THEN pc' = "add_extensions" /\ err' = err
                 ELSE Fail(r.err)
    /\ UNCHANGED <<gpx, replace, output, original, target, printed>>

\* line 179
AddExtensions ==
    /\ pc = "add_extensions"
    /\ LET r == GpxFile_add_extensions(replacement, original)
       IN  /\ replacement' = r.obj
           /\ IF r.err = "" THEN pc' = "fix_time" /\ err' = err
              ELSE Fail(r.err)
    /\ UNCHANGED <<gpx, replace, output, original, target, printed>>

\* line 180
FixTime ==
    /\ pc = "fix_time"
    /\ LET r == GpxFile_fix_time(replacement, original)
       IN  /\ replacement' = r.obj
           /\ IF r.err = "" THEN pc' = "replace_gps" /\ err' = err
              ELSE Fail(r.err)
    /\ UNCHANGED <<gpx, replace, output, original, target, printed>>

\* line 181
ReplaceGps ==
    /\ pc = "replace_gps"
    /\ original' = replace_gps(original, replacement)
    /\ replacement' = [replacement EXCEPT !.trkseg = << >>]
    /\ pc' = "print"
    /\ UNCHANGED <<gpx, replace, output, target, printed, err>>

\* lines 182-187: print(original.pretty()) or print(original)
PrintOutput ==
    /\ pc = "print"
    /\ printed' = original.trkseg
    /\ target' = "written"
    /\ pc' = "done"
    /\ UNCHANGED <<gpx, replace, output, original, replacement, err>>

Next ==
    \/ OpenOutput
    \/ LoadOriginal
    \/ LoadReplacement
    \/ AddExtensions
    \/ FixTime
    \/ ReplaceGps
    \/ PrintOutput

Spec == Init /\ [][Next]_vars

\* main run with one sensor-less file given as both --gpx and --replace:
\* every track of the bounds is constructed twice and fused with itself.
InitOneTrack ==
    /\ gpx \in Files(MaxLat, MaxTime, {<< >>})
    /\ replace = gpx
    /\ output \in BOOLEAN
    /\ original = Unbuilt
    /\ replacement = Unbuilt
    /\ target = "untouched"
    /\ printed = << >>
    /\ pc = "open_output"
    /\ err = NoErr

SpecOneTrack == InitOneTrack /\ [][Next]_vars

---------------------------------------------------------------------------
(* The quantities of the claims, computed from the input files *)

Dt(f, i) == f[i].time - f[i-1].time              \* seconds
Dist(f, i) == Abs(f[i].lat - f[i-1].lat)         \* metres

PathLength(f, i) == SumSeq([j \in 1..(i - 1) |-> Dist(f, j + 1)])

PosFrac(f, i) ==
    IF i = 1 THEN Zero ELSE Frac(PathLength(f, i), PathLength(f, Len(f)))

TimeFrac(f, i) ==
    IF i = 1 THEN Zero ELSE Frac(f[i].time - f[1].time, f[Len(f)].time - f[1].time)

\* rate (distance / duration, 0 when the duration is 0) strictly below 3/2 m/s
Stationary(f, i) ==
    \/ Dt(f, i) = 0
    \/ Dt(f, i) < 0
    \/ Dt(f, i) > 0 /\ 2 * Dist(f, i) < 3 * Dt(f, i)

Moving(f, i) == Dt(f, i) > 0 /\ 2 * Dist(f, i) >= 3 * Dt(f, i)

StationaryTotal(f) ==
    SumSeq([j \in 1..(Len(f) - 1) |-> IF Stationary(f, j + 1) THEN Dt(f, j + 1) ELSE 0])

MovingTotal(f) ==
    SumSeq([j \in 1..(Len(f) - 1) |-> IF Moving(f, j + 1) THEN Dt(f, j + 1) ELSE 0])

TimesOrdered(f) == \A i \in 2..Len(f) : Dt(f, i) >= 0

Degenerate(f) ==
    /\ Len(f) >= 2
    /\ \/ PathLength(f, Len(f)) = 0
       \/ f[Len(f)].time = f[1].time

ChannelsOf(f) ==
    UNION { { f[i].ext[e].name : e \in 1..Len(f[i].ext) } : i \in 1..Len(f) }

Carries(f, i, ch) == \E e \in 1..Len(f[i].ext) : f[i].ext[e].name = ch

SampleCount(f, ch) == Cardinality({ i \in 1..Len(f) : Carries(f, i, ch) })

\* Fewer samples of some channel than a cubic has coefficients.
Sparse(f) == \E ch \in ChannelsOf(f) : SampleCount(f, ch) < POLY_DEG + 1

\* G(i) for the points i of f that carry ch, in point order.
RECURSIVE OfCarriers(_, _, _, _)
OfCarriers(f, ch, G(_), i) ==
    IF i > Len(f) THEN << >>
    ELSE IF Carries(f, i, ch) THEN <<G(i)>> \o OfCarriers(f, ch, G, i + 1)
    ELSE OfCarriers(f, ch, G, i + 1)

ForBuilt(P(_, _)) ==
    /\ original.built => P(gpx, original)
    /\ replacement.built => P(replace, replacement)

\* main is past replacement.fix_time(original) without an exception
Retimed == pc \in {"replace_gps", "print", "done"}

NonDecreasing(s) == \A i \in 1..(Len(s) - 1) : s[i] <= s[i+1]

---------------------------------------------------------------------------
(* Claims *)

\* C1 (as claimed): after replacement.fix_time(original) the first point's new
\* time is the original's start time and the last point's new time is the
\* start time plus total_seconds - total_still_time (which differs from the
\* start time plus total_seconds whenever there is stationary time).
ClaimC1 ==
    Retimed =>
       LET n == Len(replacement.pts)
           moving == original.total_seconds - original.total_still_time
       IN  /\ replacement.pts[1].time = start_time(original)
           /\ replacement.pts[n].time = start_time(original) + moving
           /\ original.total_still_time # 0 =>
                 replacement.pts[n].time # start_time(original) + original.total_seconds

\* C2: the times that fix_time assigns to the replacement's points, and the
\* time texts it writes, are non-decreasing in point order (also over the
\* points re-timed before fix_time raised, and in the printed segment).
InvC2 ==
    /\ Retimed =>
          /\ NonDecreasing([i \in 1..Len(replacement.pts) |-> replacement.pts[i].time])
          /\ NonDecreasing([i \in 1..Len(replacement.pts) |-> replacement.pts[i].pt.time])
    /\ pc = "done" => NonDecreasing([i \in 1..Len(printed) |-> printed[i].time])
    /\ (pc = "failed" /\ err.in = "fix_time") =>
          \A i, j \in 1..Len(replacement.pts) :
             (i < j /\ \A k \in 1..j : ~IsNaN(replacement.pts[k].ndistance))
                => replacement.pts[i].time <= replacement.pts[j].time

WitC2 ==
    /\ pc = "done"
    /\ Len(replacement.pts) = 3
    /\ replacement.pts[1].time < replacement.pts[2].time
    /\ replacement.pts[2].time < replacement.pts[3].time
    /\ replacement.pts[2].time % US_PER_MS # 0
    /\ printed[2].time < printed[3].time

\* C3 (as claimed): in every constructed track the accumulated distance is
\* non-decreasing, the first ndistance is 0.0 and the last is 1.0.
NormalizedC3(f, o) ==
    /\ NonDecreasing([i \in 1..Len(o.pts) |-> o.pts[i].accumulated_distance])
    /\ o.pts[1].ndistance = Zero
    /\ o.pts[Len(o.pts)].ndistance = One

ClaimC3 == ForBuilt(NormalizedC3)

\* C4: total_still_time is the sum, over the points after the first, of the
\* duration since the previous point where the rate is strictly below 1.5 m/s
\* (rate 0 for a zero duration), and so total_seconds minus it is the rest.
StillTimeC4(f, o) ==
    /\ o.total_still_time = US_PER_S * StationaryTotal(f)
    /\ o.total_seconds - o.total_still_time
          = US_PER_S * ((f[Len(f)].time - f[1].time) - StationaryTotal(f))

InvC4 == ForBuilt(StillTimeC4)

\* The scenario of the claim in small: of two intervals of 1 s one has no
\* displacement and one is covered at 3 m/s; half of the 2 s is stationary.
WitC4 ==
    /\ original.built
    /\ Len(gpx) = 3
    /\ \E i, j \in 2..3 :
          /\ Dt(gpx, i) = 1 /\ Dist(gpx, i) = 0
          /\ Dt(gpx, j) = 1 /\ Dist(gpx, j) = 3
    /\ original.total_seconds = 2 * US_PER_S
    /\ original.total_still_time = US_PER_S

\* C5 (as claimed): a channel of the original with fewer than 4 samples makes
\* the construction of the original fail; nothing is synthesised or printed.
ClaimC5 ==
    (Sparse(gpx) /\ pc \notin {"open_output", "load_gpx"})
       => (pc = "failed" /\ err.in = "load_gpx" /\ ~original.built)

\* C6 (as claimed): a replacement of exactly one point makes its construction
\* fail, so that main never reaches add_extensions, fix_time or the print.
ClaimC6 ==
    (Len(replace) = 1 /\ pc \notin {"open_output", "load_gpx", "load_replace"})
       => (pc = "failed" /\ err.in \in {"load_gpx", "load_replace"})

\* C7 (as claimed): no NaN fraction is ever stored on a point, and a track of
\* at least 2 points with zero total distance or zero total duration is never
\* constructed, as original or as replacement.
NoNaNC7(f, o) ==
    \A i \in 1..Len(o.pts) : ~IsNaN(o.pts[i].ndistance) /\ ~IsNaN(o.pts[i].nelapsed)

ClaimC7 ==
    /\ ForBuilt(NoNaNC7)
    /\ Degenerate(gpx) => ~original.built
    /\ Degenerate(replace) => ~replacement.built
    /\ (Degenerate(gpx) \/ Degenerate(replace)) => target # "written"

\* C8 (as claimed): the abscissas handed to the regression for a channel are
\* the position fractions of the points that carry the channel.
ClaimC8 ==
    original.built =>
       \A k \in 1..Len(original.polyfit) :
          LET G(i) == PosFrac(gpx, i)
          IN  original.polyfit[k].x = OfCarriers(gpx, original.polyfit[k].name, G, 1)

\* C9 (as claimed): when main ends with an exception the output target is as
\* it was before the run.
ClaimC9 == pc = "failed" => target = "untouched"

\* C10: for a constructed track of at least 2 points (its total duration is
\* then non-zero), total_seconds - total_still_time is the sum of the
\* durations of the intervals of positive duration and rate >= 1.5 m/s, hence
\* not negative; with non-decreasing timestamps 0 <= total_still_time <=
\* total_seconds.
MovingC10(f, o) ==
    (Len(f) >= 2 /\ o.total_seconds # 0) =>
       /\ o.total_seconds - o.total_still_time = US_PER_S * MovingTotal(f)
       /\ o.total_seconds - o.total_still_time >= 0
       /\ TimesOrdered(f) =>
             (0 <= o.total_still_time /\ o.total_still_time <= o.total_seconds)

InvC10 == ForBuilt(MovingC10)

WitC10 ==
    /\ original.built
    /\ Len(gpx) = 3
    /\ ~TimesOrdered(gpx)
    /\ original.total_seconds < 0
    /\ original.total_still_time < original.total_seconds
    /\ original.total_seconds - original.total_still_time = US_PER_S

====
